---- MODULE Spec2Model ----
(***************************************************************************)
(* The staged pipeline / adapter / manager of src/ex2/nexus_pipeline.py    *)
(* and its simpler variant src/temp.py.                                    *)
(*                                                                         *)
(* Python objects are tagged records; a str is the sequence of its         *)
(* characters (one-character strings), so that len(), strip(), upper(),    *)
(* f-string formatting, str() and repr() are computed, not assumed.        *)
(* A dict is the sequence of its items in insertion order.                 *)
(***************************************************************************)
EXTENDS Integers, Sequences, FiniteSets, TLC

VARIABLES
    variant,     \* which module runs: "ex2" (nexus_pipeline.py) or "temp" (temp.py)
    pipelines,   \* NexusManager.pipelines: the registered pipeline objects, in order
    last,        \* the last call made on the manager or on a pipeline, with its outcome
    added,       \* how many add_pipeline calls were made (history variable)
    pinned       \* an earlier execution kept for comparison (history variable)

vars == <<variant, pipelines, last, added, pinned>>

----------------------------------------------------------------------------
(* String literals of the source, as character sequences.                  *)

\* "error"  (src/ex2/nexus_pipeline.py:47)
s_error ==
    <<"e", "r", "r", "o", "r">>
\* "stage"  (src/ex2/nexus_pipeline.py:47)
s_stage ==
    <<"s", "t", "a", "g", "e">>
\* "input"  (src/ex2/nexus_pipeline.py:50)
s_input ==
    <<"i", "n", "p", "u", "t">>
\* "validation"  (src/ex2/nexus_pipeline.py:51)
s_validation ==
    <<"v", "a", "l", "i", "d", "a", "t", "i", "o", "n">>
\* "Invalid data"  (src/ex2/nexus_pipeline.py:47)
s_Invalid_data ==
    <<"I", "n", "v", "a", "l", "i", "d", " ", "d", "a", "t", "a">>
\* "Failed to extract data"  (src/ex2/nexus_pipeline.py:84)
s_Failed_to_extract_data ==
    <<"F", "a", "i", "l", "e", "d", " ", "t", "o", " ", "e", "x", "t", "r", "a", "c", "t", " ", "d", "a", "t", "a">>
\* "transform"  (src/ex2/nexus_pipeline.py:85)
s_transform ==
    <<"t", "r", "a", "n", "s", "f", "o", "r", "m">>
\* "transformed"  (src/ex2/nexus_pipeline.py:91)
s_transformed ==
    <<"t", "r", "a", "n", "s", "f", "o", "r", "m", "e", "d">>
\* "enriched"  (src/ex2/nexus_pipeline.py:92)
s_enriched ==
    <<"e", "n", "r", "i", "c", "h", "e", "d">>
\* "original"  (src/ex2/nexus_pipeline.py:122)
s_original ==
    <<"o", "r", "i", "g", "i", "n", "a", "l">>
\* "uppercase"  (src/ex2/nexus_pipeline.py:123)
s_uppercase ==
    <<"u", "p", "p", "e", "r", "c", "a", "s", "e">>
\* "length"  (src/ex2/nexus_pipeline.py:124)
s_length ==
    <<"l", "e", "n", "g", "t", "h">>
\* "type"  (src/ex2/nexus_pipeline.py:125)
s_type ==
    <<"t", "y", "p", "e">>
\* "string"  (src/ex2/nexus_pipeline.py:125)
s_string ==
    <<"s", "t", "r", "i", "n", "g">>
\* "doubled"  (src/ex2/nexus_pipeline.py:132)
s_doubled ==
    <<"d", "o", "u", "b", "l", "e", "d">>
\* "squared"  (src/ex2/nexus_pipeline.py:133)
s_squared ==
    <<"s", "q", "u", "a", "r", "e", "d">>
\* "numeric"  (src/ex2/nexus_pipeline.py:134)
s_numeric ==
    <<"n", "u", "m", "e", "r", "i", "c">>
\* "count"  (src/ex2/nexus_pipeline.py:141)
s_count ==
    <<"c", "o", "u", "n", "t">>
\* "first"  (src/ex2/nexus_pipeline.py:142)
s_first ==
    <<"f", "i", "r", "s", "t">>
\* "last"  (src/ex2/nexus_pipeline.py:143)
s_last ==
    <<"l", "a", "s", "t">>
\* "list"  (src/ex2/nexus_pipeline.py:144)
s_list ==
    <<"l", "i", "s", "t">>
\* "keys"  (src/ex2/nexus_pipeline.py:151)
s_keys ==
    <<"k", "e", "y", "s">>
\* "key_count"  (src/ex2/nexus_pipeline.py:152)
s_key_count ==
    <<"k", "e", "y", "_", "c", "o", "u", "n", "t">>
\* "dict"  (src/ex2/nexus_pipeline.py:153)
s_dict ==
    <<"d", "i", "c", "t">>
\* "Error: No data to format"  (src/ex2/nexus_pipeline.py:171)
s_Error_No_data_to_format ==
    <<"E", "r", "r", "o", "r", ":", " ", "N", "o", " ", "d", "a", "t", "a", " ", "t", "o", " ", "f", "o", "r", "m", "a", "t">>
\* "Output stage error: "  (src/ex2/nexus_pipeline.py:178)
s_Output_stage_error_ ==
    <<"O", "u", "t", "p", "u", "t", " ", "s", "t", "a", "g", "e", " ", "e", "r", "r", "o", "r", ":", " ">>
\* "Processed text: "  (src/ex2/nexus_pipeline.py:196)
s_Processed_text_ ==
    <<"P", "r", "o", "c", "e", "s", "s", "e", "d", " ", "t", "e", "x", "t", ":", " ">>
\* "characters, content: '"  (src/ex2/nexus_pipeline.py:197)
s_characters_content_ ==
    <<"c", "h", "a", "r", "a", "c", "t", "e", "r", "s", ",", " ", "c", "o", "n", "t", "e", "n", "t", ":", " ", "'">>
\* "'"  (src/ex2/nexus_pipeline.py:197)
s_quote ==
    <<"'">>
\* "Processed number: "  (src/ex2/nexus_pipeline.py:202)
s_Processed_number_ ==
    <<"P", "r", "o", "c", "e", "s", "s", "e", "d", " ", "n", "u", "m", "b", "e", "r", ":", " ">>
\* " (doubled: "  (src/ex2/nexus_pipeline.py:202)
s__doubled_ ==
    <<" ", "(", "d", "o", "u", "b", "l", "e", "d", ":", " ">>
\* ")"  (src/ex2/nexus_pipeline.py:202)
s_close ==
    <<")">>
\* "Processed list: "  (src/ex2/nexus_pipeline.py:208)
s_Processed_list_ ==
    <<"P", "r", "o", "c", "e", "s", "s", "e", "d", " ", "l", "i", "s", "t", ":", " ">>
\* "items (first: "  (src/ex2/nexus_pipeline.py:209)
s_items_first_ ==
    <<"i", "t", "e", "m", "s", " ", "(", "f", "i", "r", "s", "t", ":", " ">>
\* ", last: "  (src/ex2/nexus_pipeline.py:209)
s__last_ ==
    <<",", " ", "l", "a", "s", "t", ":", " ">>
\* ", "  (src/ex2/nexus_pipeline.py:214)
s_comma_ ==
    <<",", " ">>
\* "Processed dict: "  (src/ex2/nexus_pipeline.py:215)
s_Processed_dict_ ==
    <<"P", "r", "o", "c", "e", "s", "s", "e", "d", " ", "d", "i", "c", "t", ":", " ">>
\* " keys ("  (src/ex2/nexus_pipeline.py:215)
s__keys_ ==
    <<" ", "k", "e", "y", "s", " ", "(">>
\* "Output: "  (src/ex2/nexus_pipeline.py:217)
s_Output_ ==
    <<"O", "u", "t", "p", "u", "t", ":", " ">>
\* "Pipeline execution failed: "  (src/ex2/nexus_pipeline.py:37)
s_Pipeline_execution_failed_ ==
    <<"P", "i", "p", "e", "l", "i", "n", "e", " ", "e", "x", "e", "c", "u", "t", "i", "o", "n", " ", "f", "a", "i", "l", "e", "d", ":", " ">>
\* "Processing JSON data through pipeline: "  (src/ex2/nexus_pipeline.py:231)
s_Processing_JSON_ex2 ==
    <<"P", "r", "o", "c", "e", "s", "s", "i", "n", "g", " ", "J", "S", "O", "N", " ", "d", "a", "t", "a", " ", "t", "h", "r", "o", "u", "g", "h", " ", "p", "i", "p", "e", "l", "i", "n", "e", ":", " ">>
\* "Processing CSV data through pipeline: "  (src/ex2/nexus_pipeline.py:250)
s_Processing_CSV_ex2 ==
    <<"P", "r", "o", "c", "e", "s", "s", "i", "n", "g", " ", "C", "S", "V", " ", "d", "a", "t", "a", " ", "t", "h", "r", "o", "u", "g", "h", " ", "p", "i", "p", "e", "l", "i", "n", "e", ":", " ">>
\* "Processing Stream data through pipeline: "  (src/ex2/nexus_pipeline.py:269)
s_Processing_Stream_ex2 ==
    <<"P", "r", "o", "c", "e", "s", "s", "i", "n", "g", " ", "S", "t", "r", "e", "a", "m", " ", "d", "a", "t", "a", " ", "t", "h", "r", "o", "u", "g", "h", " ", "p", "i", "p", "e", "l", "i", "n", "e", ":", " ">>
\* "JSON processing error: "  (src/ex2/nexus_pipeline.py:236)
s_JSON_processing_error_ ==
    <<"J", "S", "O", "N", " ", "p", "r", "o", "c", "e", "s", "s", "i", "n", "g", " ", "e", "r", "r", "o", "r", ":", " ">>
\* "CSV processing error: "  (src/ex2/nexus_pipeline.py:255)
s_CSV_processing_error_ ==
    <<"C", "S", "V", " ", "p", "r", "o", "c", "e", "s", "s", "i", "n", "g", " ", "e", "r", "r", "o", "r", ":", " ">>
\* "Stream processing error: "  (src/ex2/nexus_pipeline.py:274)
s_Stream_processing_error_ ==
    <<"S", "t", "r", "e", "a", "m", " ", "p", "r", "o", "c", "e", "s", "s", "i", "n", "g", " ", "e", "r", "r", "o", "r", ":", " ">>
\* "Manager error: "  (src/ex2/nexus_pipeline.py:299)
s_Manager_error_ ==
    <<"M", "a", "n", "a", "g", "e", "r", " ", "e", "r", "r", "o", "r", ":", " ">>
\* "Error: Pipeline "  (src/ex2/nexus_pipeline.py:297)
s_Error_Pipeline_ ==
    <<"E", "r", "r", "o", "r", ":", " ", "P", "i", "p", "e", "l", "i", "n", "e", " ">>
\* " not found"  (src/ex2/nexus_pipeline.py:297)
s__not_found ==
    <<" ", "n", "o", "t", " ", "f", "o", "u", "n", "d">>
\* "sensor"  (src/temp.py:54)
s_sensor ==
    <<"s", "e", "n", "s", "o", "r">>
\* "value"  (src/temp.py:54)
s_value ==
    <<"v", "a", "l", "u", "e">>
\* "Processed temperature reading:"  (src/temp.py:53)
s_Processed_temperature_reading_ ==
    <<"P", "r", "o", "c", "e", "s", "s", "e", "d", " ", "t", "e", "m", "p", "e", "r", "a", "t", "u", "r", "e", " ", "r", "e", "a", "d", "i", "n", "g", ":">>
\* "°C (Normal range)"  (src/temp.py:55)
s_C_Normal_range_ ==
    <<"°", "C", " ", "(", "N", "o", "r", "m", "a", "l", " ", "r", "a", "n", "g", "e", ")">>
\* "User activity logged: 1 actions processed"  (src/temp.py:57)
s_User_activity_logged ==
    <<"U", "s", "e", "r", " ", "a", "c", "t", "i", "v", "i", "t", "y", " ", "l", "o", "g", "g", "e", "d", ":", " ", "1", " ", "a", "c", "t", "i", "o", "n", "s", " ", "p", "r", "o", "c", "e", "s", "s", "e", "d">>
\* "Stream summary: "  (src/temp.py:60)
s_Stream_summary_ ==
    <<"S", "t", "r", "e", "a", "m", " ", "s", "u", "m", "m", "a", "r", "y", ":", " ">>
\* " readings, avg: "  (src/temp.py:60)
s__readings_avg_ ==
    <<" ", "r", "e", "a", "d", "i", "n", "g", "s", ",", " ", "a", "v", "g", ":", " ">>
\* "°C"  (src/temp.py:60)
s_degC ==
    <<"°", "C">>
\* "Processed output: "  (src/temp.py:61)
s_Processed_output_ ==
    <<"P", "r", "o", "c", "e", "s", "s", "e", "d", " ", "o", "u", "t", "p", "u", "t", ":", " ">>
\* "Processing JSON data through pipeline..."  (src/temp.py:72)
s_Processing_JSON_temp ==
    <<"P", "r", "o", "c", "e", "s", "s", "i", "n", "g", " ", "J", "S", "O", "N", " ", "d", "a", "t", "a", " ", "t", "h", "r", "o", "u", "g", "h", " ", "p", "i", "p", "e", "l", "i", "n", "e", ".", ".", ".">>
\* "Processing CSV data through same pipeline..."  (src/temp.py:84)
s_Processing_CSV_temp ==
    <<"P", "r", "o", "c", "e", "s", "s", "i", "n", "g", " ", "C", "S", "V", " ", "d", "a", "t", "a", " ", "t", "h", "r", "o", "u", "g", "h", " ", "s", "a", "m", "e", " ", "p", "i", "p", "e", "l", "i", "n", "e", ".", ".", ".">>
\* "Processing Stream data through same pipeline..."  (src/temp.py:96)
s_Processing_Stream_temp ==
    <<"P", "r", "o", "c", "e", "s", "s", "i", "n", "g", " ", "S", "t", "r", "e", "a", "m", " ", "d", "a", "t", "a", " ", "t", "h", "r", "o", "u", "g", "h", " ", "s", "a", "m", "e", " ", "p", "i", "p", "e", "l", "i", "n", "e", ".", ".", ".">>
\* "JSON_001"  (src/ex2/nexus_pipeline.py:312)
s_JSON_001 ==
    <<"J", "S", "O", "N", "_", "0", "0", "1">>
\* "CSV_001"  (src/ex2/nexus_pipeline.py:313)
s_CSV_001 ==
    <<"C", "S", "V", "_", "0", "0", "1">>


----------------------------------------------------------------------------
(* Python values.                                                          *)

VNone == [t |-> "NoneType"]
VBool(b) == [t |-> "bool", v |-> b]
VInt(n) == [t |-> "int", v |-> n]
VStr(cs) == [t |-> "str", v |-> cs]
VList(es) == [t |-> "list", v |-> es]
VTuple(es) == [t |-> "tuple", v |-> es]
\* items: a sequence of [k |-> key, v |-> value], keys distinct
VDict(items) == [t |-> "dict", v |-> items]
Item(key, val) == [k |-> key, v |-> val]

RECURSIVE Gcd(_, _)
Gcd(a, b) == IF b = 0 THEN a ELSE Gcd(b, a % b)

Abs(n) == IF n < 0 THEN -n ELSE n

\* A float that is exactly the rational n/d (d > 0), in lowest terms.
VFloat(n, d) ==
    LET g == IF n = 0 THEN d ELSE Gcd(Abs(n), d)
    IN  [t |-> "float", num |-> n \div g, den |-> d \div g]

\* isinstance(x, str), isinstance(x, list), isinstance(x, dict)
IsStr(x) == x.t = "str"
IsList(x) == x.t = "list"
IsDict(x) == x.t = "dict"
\* isinstance(x, (int, float)): bool is a subclass of int
IsNumber(x) == x.t \in {"int", "bool", "float"}

\* len(x) of a str, list, tuple or dict
PyLen(x) == Len(x.v)

\* key in d, d[key] / d.get(key)
HasKey(d, key) == \E i \in 1..Len(d.v) : d.v[i].k = key
GetKey(d, key) == d.v[CHOOSE i \in 1..Len(d.v) : d.v[i].k = key].v

\* list(d.keys())
DictKeys(d) == [i \in 1..Len(d.v) |-> d.v[i].k]

\* The numerator and denominator of a number (True is 1, False is 0).
NumOf(x) ==
    CASE x.t = "int" -> x.v
      [] x.t = "bool" -> (IF x.v THEN 1 ELSE 0)
      [] x.t = "float" -> x.num
DenOf(x) == IF x.t = "float" THEN x.den ELSE 1

\* a + b, a * b of numbers: int unless an operand is a float
NumAdd(a, b) ==
    IF a.t = "float" \/ b.t = "float"
    THEN VFloat(NumOf(a) * DenOf(b) + NumOf(b) * DenOf(a), DenOf(a) * DenOf(b))
    ELSE VInt(NumOf(a) + NumOf(b))
NumMul(a, b) ==
    IF a.t = "float" \/ b.t = "float"
    THEN VFloat(NumOf(a) * NumOf(b), DenOf(a) * DenOf(b))
    ELSE VInt(NumOf(a) * NumOf(b))
\* a / n, true division by a positive int: always a float
NumDiv(a, n) == VFloat(NumOf(a), DenOf(a) * n)

----------------------------------------------------------------------------
(* str.strip(), str.upper()                                                *)

Whitespace == {" ", "\t", "\n", "\r", "\f"}

\* not s.strip(): the text is empty or holds only whitespace
IsBlank(cs) == \A i \in 1..Len(cs) : cs[i] \in Whitespace

LowerCase ==
    <<"a", "b", "c", "d", "e", "f", "g", "h", "i", "j", "k", "l", "m",
      "n", "o", "p", "q", "r", "s", "t", "u", "v", "w", "x", "y", "z">>
UpperCase ==
    <<"A", "B", "C", "D", "E", "F", "G", "H", "I", "J", "K", "L", "M",
      "N", "O", "P", "Q", "R", "S", "T", "U", "V", "W", "X", "Y", "Z">>

UpperChar(c) ==
    IF \E i \in 1..Len(LowerCase) : LowerCase[i] = c
    THEN UpperCase[CHOOSE i \in 1..Len(LowerCase) : LowerCase[i] = c]
    ELSE c

Upper(cs) == [i \in 1..Len(cs) |-> UpperChar(cs[i])]

----------------------------------------------------------------------------
(* str() and repr(), as f-strings and str(...) apply them.                 *)

DigitChars == <<"0", "1", "2", "3", "4", "5", "6", "7", "8", "9">>

RECURSIVE NatStr(_)
NatStr(n) ==
    IF n < 10 THEN <<DigitChars[n + 1]>>
    ELSE NatStr(n \div 10) \o <<DigitChars[(n % 10) + 1]>>

IntStr(n) == IF n < 0 THEN <<"-">> \o NatStr(-n) ELSE NatStr(n)

\* The decimal digits of r/d (0 <= r < d), at most k of them.
RECURSIVE FracDigits(_, _, _)
FracDigits(r, d, k) ==
    IF r = 0 \/ k = 0 THEN <<>>
    ELSE <<DigitChars[((r * 10) \div d) + 1]>>
         \o FracDigits((r * 10) % d, d, k - 1)

\* repr of a float: exact for a terminating expansion; a non-terminating one
\* is cut at 16 fraction digits (CPython prints the shortest text that reads
\* back as the same double, whose last digit may differ).
FloatStr(x) ==
    LET a == Abs(x.num)
        frac == FracDigits(a % x.den, x.den, 16)
    IN  (IF x.num < 0 THEN <<"-">> ELSE <<>>)
        \o NatStr(a \div x.den) \o <<".">>
        \o (IF frac = <<>> THEN <<"0">> ELSE frac)

EscapeChar(c, q) ==
    CASE c = "\\" -> <<"\\", "\\">>
      [] c = q -> <<"\\", q>>
      [] c = "\n" -> <<"\\", "n">>
      [] c = "\t" -> <<"\\", "t">>
      [] c = "\r" -> <<"\\", "r">>
      [] c = "\f" -> <<"\\", "x", "0", "c">>
      [] OTHER -> <<c>>

RECURSIVE Escape(_, _)
Escape(cs, q) ==
    IF cs = <<>> THEN <<>>
    ELSE EscapeChar(Head(cs), q) \o Escape(Tail(cs), q)

\* repr of a str: single quotes, unless it holds a ' and no "
StrRepr(cs) ==
    LET hasSingle == \E i \in 1..Len(cs) : cs[i] = "'"
        hasDouble == \E i \in 1..Len(cs) : cs[i] = "\""
        q == IF hasSingle /\ ~hasDouble THEN "\"" ELSE "'"
    IN  <<q>> \o Escape(cs, q) \o <<q>>

RECURSIVE PyRepr(_), ReprJoin(_), ItemJoin(_)

\* ", ".join(repr(e) for e in es)
ReprJoin(es) ==
    IF es = <<>> THEN <<>>
    ELSE IF Len(es) = 1 THEN PyRepr(es[1])
    ELSE PyRepr(es[1]) \o <<",", " ">> \o ReprJoin(Tail(es))

\* ", ".join(repr(k) + ": " + repr(v) for k, v in d.items())
ItemJoin(items) ==
    IF items = <<>> THEN <<>>
    ELSE LET one == PyRepr(items[1].k) \o <<":", " ">> \o PyRepr(items[1].v)
         IN  IF Len(items) = 1 THEN one
             ELSE one \o <<",", " ">> \o ItemJoin(Tail(items))

PyRepr(x) ==
    CASE x.t = "NoneType" -> <<"N", "o", "n", "e">>
      [] x.t = "bool" ->
            (IF x.v THEN <<"T", "r", "u", "e">> ELSE <<"F", "a", "l", "s", "e">>)
      [] x.t = "int" -> IntStr(x.v)
      [] x.t = "float" -> FloatStr(x)
      [] x.t = "str" -> StrRepr(x.v)
      [] x.t = "list" -> <<"[">> \o ReprJoin(x.v) \o <<"]">>
      [] x.t = "tuple" ->
            <<"(">> \o ReprJoin(x.v)
            \o (IF Len(x.v) = 1 THEN <<",">> ELSE <<>>) \o <<")">>
      [] x.t = "dict" -> <<"{">> \o ItemJoin(x.v) \o <<"}">>

\* str(x), and {x} in an f-string: a str as it is, anything else its repr
PyStr(x) == IF x.t = "str" THEN x.v ELSE PyRepr(x)

\* type(x).__name__, as exception messages print it
TypeName(x) ==
    CASE x.t = "NoneType" -> <<"N", "o", "n", "e", "T", "y", "p", "e">>
      [] x.t = "bool" -> <<"b", "o", "o", "l">>
      [] x.t = "int" -> <<"i", "n", "t">>
      [] x.t = "float" -> <<"f", "l", "o", "a", "t">>
      [] x.t = "str" -> <<"s", "t", "r">>
      [] x.t = "list" -> <<"l", "i", "s", "t">>
      [] x.t = "tuple" -> <<"t", "u", "p", "l", "e">>
      [] x.t = "dict" -> <<"d", "i", "c", "t">>

\* How a call ends: it returns a value or raises an exception.
Return(x) == [raised |-> FALSE, value |-> x]
Raise(exc, msg) == [raised |-> TRUE, exc |-> exc, msg |-> msg]

----------------------------------------------------------------------------
(* src/ex2/nexus_pipeline.py: the three stages.  Each process() has its    *)
(* body in try/except Exception and so returns in every case.              *)

\* {"error": msg, "stage": stage}
ErrorDict(msg, stage) ==
    VDict(<<Item(VStr(s_error), VStr(msg)), Item(VStr(s_stage), VStr(stage))>>)

\* A stage Error: a mapping carrying "error" and "stage".
IsErrorDict(x) ==
    IsDict(x) /\ HasKey(x, VStr(s_error)) /\ HasKey(x, VStr(s_stage))

InputStage_validate_data(data) ==
    IF data = VNone THEN FALSE
    ELSE IF IsStr(data) /\ IsBlank(data.v) THEN FALSE
    ELSE IF IsList(data) /\ PyLen(data) = 0 THEN FALSE
    ELSE IF IsDict(data) /\ PyLen(data) = 0 THEN FALSE
    ELSE TRUE

InputStage_process(data) ==
    IF ~InputStage_validate_data(data)
    THEN Return(ErrorDict(s_Invalid_data, s_input))
    ELSE Return(VDict(<<Item(VStr(s_input), data),
                        Item(VStr(s_validation), VBool(TRUE)),
                        Item(VStr(s_stage), VStr(s_input))>>))

\* extract_data, had it unwrapped "input" down to the innermost value.
RECURSIVE TransformStage_extract_data_innermost(_)
TransformStage_extract_data_innermost(data) ==
    IF IsDict(data)
    THEN IF HasKey(data, VStr(s_input))
         THEN TransformStage_extract_data_innermost(GetKey(data, VStr(s_input)))
         ELSE data
    ELSE data

TransformStage_extract_data(data) ==
    IF IsDict(data)
    THEN IF HasKey(data, VStr(s_input)) THEN GetKey(data, VStr(s_input))
         ELSE data
    ELSE data

\* transform_data, had it stored data + 2 as "doubled".
TransformStage_transform_data_plus_two(data) ==
    IF IsNumber(data) THEN
        VDict(<<Item(VStr(s_original), data),
                Item(VStr(s_doubled), NumAdd(data, VInt(2))),
                Item(VStr(s_squared), NumMul(data, data)),
                Item(VStr(s_type), VStr(s_numeric))>>)
    ELSE data

TransformStage_transform_data(data) ==
    IF IsStr(data) THEN
        VDict(<<Item(VStr(s_original), data),
                Item(VStr(s_uppercase), VStr(Upper(data.v))),
                Item(VStr(s_length), VInt(PyLen(data))),
                Item(VStr(s_type), VStr(s_string))>>)
    ELSE IF IsNumber(data) THEN
        VDict(<<Item(VStr(s_original), data),
                Item(VStr(s_doubled), NumMul(data, VInt(2))),
                Item(VStr(s_squared), NumMul(data, data)),
                Item(VStr(s_type), VStr(s_numeric))>>)
    ELSE IF IsList(data) THEN
        VDict(<<Item(VStr(s_original), data),
                Item(VStr(s_count), VInt(PyLen(data))),
                Item(VStr(s_first),
                     IF PyLen(data) > 0 THEN data.v[1] ELSE VNone),
                Item(VStr(s_last),
                     IF PyLen(data) > 0 THEN data.v[PyLen(data)] ELSE VNone),
                Item(VStr(s_type), VStr(s_list))>>)
    ELSE IF IsDict(data) THEN
        VDict(<<Item(VStr(s_original), data),
                Item(VStr(s_keys), VList(DictKeys(data))),
                Item(VStr(s_key_count), VInt(PyLen(data))),
                Item(VStr(s_type), VStr(s_dict))>>)
    ELSE data

TransformStage_transformed(data, extracted_data) ==
    IF extracted_data = VNone
    THEN Return(ErrorDict(s_Failed_to_extract_data, s_transform))
    ELSE Return(VDict(<<
            Item(VStr(s_input), data),
            Item(VStr(s_transformed),
                 TransformStage_transform_data(extracted_data)),
            Item(VStr(s_enriched), VBool(TRUE)),
            Item(VStr(s_stage), VStr(s_transform))>>))

TransformStage_process(data) ==
    TransformStage_transformed(data, TransformStage_extract_data(data))

OutputStage_extract_data(data) ==
    IF IsDict(data)
    THEN IF HasKey(data, VStr(s_transformed))
         THEN GetKey(data, VStr(s_transformed))
         ELSE data
    ELSE data

\* data.get(key) if key in data else default
GetOr(data, key, default) ==
    IF HasKey(data, VStr(key)) THEN GetKey(data, VStr(key)) ELSE default

\* [str(k) for k in keys]: the elements of a list or tuple, the characters
\* of a str, the keys of a dict
IsIterable(keys) == keys.t \in {"list", "tuple", "str", "dict"}
IterStrs(keys) ==
    CASE keys.t \in {"list", "tuple"} ->
            [i \in 1..Len(keys.v) |-> PyStr(keys.v[i])]
      [] keys.t = "str" -> [i \in 1..Len(keys.v) |-> <<keys.v[i]>>]
      [] keys.t = "dict" -> [i \in 1..Len(keys.v) |-> PyStr(keys.v[i].k)]

\* sep.join(strs)
RECURSIVE Join(_, _)
Join(sep, strs) ==
    IF strs = <<>> THEN <<>>
    ELSE IF Len(strs) = 1 THEN strs[1]
    ELSE strs[1] \o sep \o Join(sep, Tail(strs))

\* TypeError: '<type>' object is not iterable
NotIterable(x) ==
    Raise("TypeError",
          <<"'">> \o TypeName(x)
          \o <<"'", " ", "o", "b", "j", "e", "c", "t", " ", "i", "s", " ",
               "n", "o", "t", " ", "i", "t", "e", "r", "a", "b", "l", "e">>)

\* The "string" and "list" branches return a 2-tuple: the two f-strings are
\* separated by a comma inside the parentheses (lines 196-197, 208-209).
OutputStage_format_output(data) ==
    LET data_type == IF IsDict(data) THEN GetOr(data, s_type, VNone) ELSE VNone
    IN  IF IsDict(data) /\ data_type = VStr(s_string) THEN
            LET original == GetOr(data, s_original, VStr(<<>>))
                length == GetOr(data, s_length, VInt(0))
            IN  Return(VTuple(<<
                    VStr(s_Processed_text_ \o PyStr(length)),
                    VStr(s_characters_content_ \o PyStr(original) \o s_quote)>>))
        ELSE IF IsDict(data) /\ data_type = VStr(s_numeric) THEN
            LET original == GetOr(data, s_original, VInt(0))
                doubled == GetOr(data, s_doubled, VInt(0))
            IN  Return(VStr(s_Processed_number_ \o PyStr(original)
                            \o s__doubled_ \o PyStr(doubled) \o s_close))
        ELSE IF IsDict(data) /\ data_type = VStr(s_list) THEN
            LET count == GetOr(data, s_count, VInt(0))
                first == GetOr(data, s_first, VNone)
                last_ == GetOr(data, s_last, VNone)
            IN  Return(VTuple(<<
                    VStr(s_Processed_list_ \o PyStr(count)),
                    VStr(s_items_first_ \o PyStr(first)
                         \o s__last_ \o PyStr(last_) \o s_close)>>))
        ELSE IF IsDict(data) /\ data_type = VStr(s_dict) THEN
            LET key_count == GetOr(data, s_key_count, VInt(0))
                keys == GetOr(data, s_keys, VList(<<>>))
            IN  IF ~IsIterable(keys) THEN NotIterable(keys)
                ELSE Return(VStr(s_Processed_dict_ \o PyStr(key_count)
                                 \o s__keys_ \o Join(s_comma_, IterStrs(keys))
                                 \o s_close))
        ELSE Return(VStr(s_Output_ \o PyStr(data)))

\* except Exception as e: return f"Output stage error: {str(e)}"
OutputStage_caught(formatted_output) ==
    IF formatted_output.raised
    THEN Return(VStr(s_Output_stage_error_ \o formatted_output.msg))
    ELSE formatted_output

OutputStage_formatted(extracted_data) ==
    IF extracted_data = VNone
    THEN Return(VStr(s_Error_No_data_to_format))
    ELSE OutputStage_caught(OutputStage_format_output(extracted_data))

OutputStage_process(data) ==
    OutputStage_formatted(OutputStage_extract_data(data))

----------------------------------------------------------------------------
(* src/temp.py: the three stages.  No process() catches anything.          *)

Temp_InputStage_process(data) == Return(data)

Temp_TransformStage_process(data) == Return(data)

\* TypeError: unsupported operand type(s) for +: '<type>' and '<type>'
UnsupportedAdd(a, b) ==
    Raise("TypeError",
          <<"u", "n", "s", "u", "p", "p", "o", "r", "t", "e", "d", " ",
            "o", "p", "e", "r", "a", "n", "d", " ", "t", "y", "p", "e",
            "(", "s", ")", " ", "f", "o", "r", " ", "+", ":", " ", "'">>
          \o TypeName(a) \o <<"'", " ", "a", "n", "d", " ", "'">>
          \o TypeName(b) \o <<"'">>)

\* sum(data), accumulated from 0 left to right
RECURSIVE PySum(_, _)
PySum(acc, es) ==
    IF es = <<>> THEN Return(acc)
    ELSE IF IsNumber(Head(es)) THEN PySum(NumAdd(acc, Head(es)), Tail(es))
    ELSE UnsupportedAdd(acc, Head(es))

\* total / len(data)
Divided(total, n) ==
    IF total.raised THEN total
    ELSE IF n = 0
    THEN Raise("ZeroDivisionError",
               <<"d", "i", "v", "i", "s", "i", "o", "n", " ",
                 "b", "y", " ", "z", "e", "r", "o">>)
    ELSE Return(NumDiv(total.value, n))

\* sum(data) / len(data)
Average(data) == Divided(PySum(VInt(0), data.v), PyLen(data))

\* f"Stream summary: {len(data)} readings, avg: {avg}\u00b0C"
StreamSummary(data, avg) ==
    IF avg.raised THEN avg
    ELSE Return(VStr(s_Stream_summary_ \o IntStr(PyLen(data))
                     \o s__readings_avg_ \o PyStr(avg.value) \o s_degC))

Temp_OutputStage_process(data) ==
    IF IsDict(data) /\ HasKey(data, VStr(s_sensor)) /\ HasKey(data, VStr(s_value))
    THEN Return(VStr(s_Processed_temperature_reading_ \o <<" ">>
                     \o PyStr(GetKey(data, VStr(s_value)))
                     \o s_C_Normal_range_))
    ELSE IF IsStr(data) THEN Return(VStr(s_User_activity_logged))
    ELSE IF IsList(data) THEN StreamSummary(data, Average(data))
    ELSE Return(VStr(s_Processed_output_ \o PyStr(data)))

----------------------------------------------------------------------------
(* ProcessingPipeline and the adapters.  A pipeline object is              *)
(* [kind, pipeline_id, stages]; a stage object has no fields and is named  *)
(* by its class.                                                           *)

StageClasses == {"InputStage", "TransformStage", "OutputStage"}
AdapterClasses == {"JSONAdapter", "CSVAdapter", "StreamAdapter"}

\* stage.process(data) in nexus_pipeline.py and in temp.py
Stage_process(stage, data) ==
    CASE stage = "InputStage" -> InputStage_process(data)
      [] stage = "TransformStage" -> TransformStage_process(data)
      [] stage = "OutputStage" -> OutputStage_process(data)

Temp_Stage_process(stage, data) ==
    CASE stage = "InputStage" -> Temp_InputStage_process(data)
      [] stage = "TransformStage" -> Temp_TransformStage_process(data)
      [] stage = "OutputStage" -> Temp_OutputStage_process(data)

\* for stage in self.stages: current_data = stage.process(current_data)
\* The loop has no test of what a stage returned: only an exception ends it
\* early.  calls records every stage invoked, with what it was given and how
\* it ended.
RECURSIVE RunStages(_, _, _, _), AfterStage(_, _, _, _, _)
RunStages(var, stages, current_data, calls) ==
    IF stages = <<>> THEN [outcome |-> Return(current_data), calls |-> calls]
    ELSE AfterStage(var, stages, current_data, calls,
                    IF var = "ex2"
                    THEN Stage_process(Head(stages), current_data)
                    ELSE Temp_Stage_process(Head(stages), current_data))

\* out is what stage.process(current_data) did, for the first of stages
AfterStage(var, stages, current_data, calls, out) ==
    IF out.raised
    THEN [outcome |-> out,
          calls |-> Append(calls, [stage |-> Head(stages),
                                   arg |-> current_data, out |-> out])]
    ELSE RunStages(var, Tail(stages), out.value,
                   Append(calls, [stage |-> Head(stages),
                                  arg |-> current_data, out |-> out]))

\* except Exception as e: return {"error": f"Pipeline execution failed: {str(e)}"}
execute_caught(run) ==
    IF run.outcome.raised
    THEN [outcome |-> Return(VDict(<<Item(VStr(s_error),
                VStr(s_Pipeline_execution_failed_ \o run.outcome.msg))>>)),
          calls |-> run.calls]
    ELSE run

\* nexus_pipeline.py: execute_pipeline, the loop inside try
execute_pipeline(self, data) ==
    execute_caught(RunStages("ex2", self.stages, data, <<>>))

\* temp.py: execute_pipeline, no try
Temp_execute_pipeline(self, data) == RunStages("temp", self.stages, data, <<>>)

\* __init__ of the three adapters, in both files: the three stages in order
NewAdapter(kind, pipeline_id) ==
    [kind |-> kind, pipeline_id |-> pipeline_id,
     stages |-> <<"InputStage", "TransformStage", "OutputStage">>]

\* The adapters' process(), nexus_pipeline.py: print the label, run, and turn
\* an exception into text.  printed is what the call prints first.
Adapter_result(self, label, error_prefix, run) ==
    [printed |-> label \o self.pipeline_id,
     outcome |-> IF run.outcome.raised
                 THEN Return(VStr(error_prefix \o run.outcome.msg))
                 ELSE run.outcome,
     calls |-> run.calls]

AdapterRun(self, data, label, error_prefix) ==
    Adapter_result(self, label, error_prefix, execute_pipeline(self, data))

JSONAdapter_process(self, data) ==
    AdapterRun(self, data, s_Processing_JSON_ex2, s_JSON_processing_error_)

\* CSVAdapter.process, had it returned its input without running the stages.
CSVAdapter_process_unprocessed(self, data) ==
    Adapter_result(self, s_Processing_CSV_ex2, s_CSV_processing_error_,
                   [outcome |-> Return(data), calls |-> <<>>])

CSVAdapter_process(self, data) ==
    AdapterRun(self, data, s_Processing_CSV_ex2, s_CSV_processing_error_)

StreamAdapter_process(self, data) ==
    AdapterRun(self, data, s_Processing_Stream_ex2, s_Stream_processing_error_)

\* The adapters' process(), temp.py
Temp_Adapter_result(label, run) ==
    [printed |-> label, outcome |-> run.outcome, calls |-> run.calls]

Temp_AdapterRun(self, data, label) ==
    Temp_Adapter_result(label, Temp_execute_pipeline(self, data))

Temp_JSONAdapter_process(self, data) ==
    Temp_AdapterRun(self, data, s_Processing_JSON_temp)

Temp_CSVAdapter_process(self, data) ==
    Temp_AdapterRun(self, data, s_Processing_CSV_temp)

Temp_StreamAdapter_process(self, data) ==
    Temp_AdapterRun(self, data, s_Processing_Stream_temp)

\* The pipeline object after process(data), had execute_pipeline consumed
\* self.stages while running them.
Pipeline_after_process_drained(self) == [self EXCEPT !.stages = <<>>]

\* The pipeline object once process(data) has returned or raised: process and
\* execute_pipeline assign no attribute of self, and the loop only reads
\* self.stages.
Pipeline_after_process(self) == self

\* pipeline.process(data): dispatch on the object's class
Pipeline_process(var, self, data) ==
    IF var = "ex2"
    THEN CASE self.kind = "JSONAdapter" -> JSONAdapter_process(self, data)
           [] self.kind = "CSVAdapter" -> CSVAdapter_process(self, data)
           [] self.kind = "StreamAdapter" -> StreamAdapter_process(self, data)
    ELSE CASE self.kind = "JSONAdapter" -> Temp_JSONAdapter_process(self, data)
           [] self.kind = "CSVAdapter" -> Temp_CSVAdapter_process(self, data)
           [] self.kind = "StreamAdapter" -> Temp_StreamAdapter_process(self, data)

----------------------------------------------------------------------------
(* What the caller passes in, and the bounds of the model.                 *)

MaxPipelines == 2       \* add_pipeline calls made
MaxStages == 4          \* stages a pipeline holds, add_stage calls included

Variants == {"ex2", "temp"}

\* The identifiers the caller registers and looks up.
PipelineIds == {s_JSON_001, s_CSV_001}

\* The data the caller passes.
Values ==
    { VNone, VBool(TRUE), VInt(0), VInt(42), VInt(-7), VFloat(5, 2),
      VStr(<<>>), VStr(<<" ">>), VStr(<<"a", "b">>),
      VList(<<>>), VList(<<VInt(1), VFloat(5, 2)>>), VList(<<VStr(<<"a">>)>>),
      VDict(<<>>),
      VDict(<<Item(VStr(s_sensor), VStr(<<"t">>)), Item(VStr(s_value), VInt(3))>>),
      VDict(<<Item(VStr(s_input), VInt(7))>>),
      VDict(<<Item(VStr(s_transformed), VInt(1)),
              Item(VStr(s_type), VStr(s_string))>>) }

\* What a stage called on its own is given: the caller's values, what the
\* stages before it return for them, and mappings whose "transformed" item
\* is absent or empty.
StageValues ==
    Values
    \cup { VBool(FALSE), VFloat(0, 1), VStr(<<" ", " ">>) }
    \cup { InputStage_process(v).value : v \in Values }
    \cup { TransformStage_process(InputStage_process(v).value).value :
                v \in Values }
    \cup { VDict(<<Item(VStr(s_transformed), v)>>) :
                v \in {VNone, VDict(<<>>), VList(<<>>), VStr(<<>>)} }

----------------------------------------------------------------------------
(* NexusManager                                                            *)

\* The lookup, had a later registration shadowed the earlier ones: the
\* position of the last match, 0 when there is none.
FindPipeline_last_match(registry, pipeline_id, i) ==
    IF \A j \in i..Len(registry) : registry[j].pipeline_id # pipeline_id
    THEN 0
    ELSE CHOOSE j \in i..Len(registry) :
            /\ registry[j].pipeline_id = pipeline_id
            /\ \A k \in (j + 1)..Len(registry) :
                    registry[k].pipeline_id # pipeline_id

\* for pipeline in self.pipelines: if pipeline.pipeline_id == pipeline_id:
\* the index of the first match from position i on, 0 when there is none
RECURSIVE FindPipeline(_, _, _)
FindPipeline(registry, pipeline_id, i) ==
    IF i > Len(registry) THEN 0
    ELSE IF registry[i].pipeline_id = pipeline_id THEN i
    ELSE FindPipeline(registry, pipeline_id, i + 1)

\* f"Error: Pipeline {pipeline_id} not found"
NotFound(pipeline_id) == VStr(s_Error_Pipeline_ \o pipeline_id \o s__not_found)

\* return pipeline.process(data), and in nexus_pipeline.py
\* except Exception as e: return f"Manager error: {str(e)}"
Manager_result(var, i, run) ==
    [target |-> i, printed |-> run.printed,
     outcome |-> IF var = "ex2" /\ run.outcome.raised
                 THEN Return(VStr(s_Manager_error_ \o run.outcome.msg))
                 ELSE run.outcome,
     calls |-> run.calls]

\* process_data, had it fallen back to the first registered pipeline when
\* no identifier matches.
Manager_dispatch_fallback(var, registry, pipeline_id, data, i) ==
    IF i = 0 /\ Len(registry) = 0
    THEN [target |-> 0, printed |-> <<>>,
          outcome |-> Return(NotFound(pipeline_id)), calls |-> <<>>]
    ELSE Manager_result(var, IF i = 0 THEN 1 ELSE i,
                        Pipeline_process(var, registry[IF i = 0 THEN 1 ELSE i],
                                         data))

\* i is the position of the first match, 0 for none
Manager_dispatch(var, registry, pipeline_id, data, i) ==
    IF i = 0
    THEN [target |-> 0, printed |-> <<>>,
          outcome |-> Return(NotFound(pipeline_id)), calls |-> <<>>]
    ELSE Manager_result(var, i, Pipeline_process(var, registry[i], data))

\* process_data: target is the position of the pipeline it ran, 0 for none
NexusManager_process_data(var, registry, pipeline_id, data) ==
    Manager_dispatch(var, registry, pipeline_id, data,
                     FindPipeline(registry, pipeline_id, 1))

\* get_pipeline_count
NexusManager_get_pipeline_count(registry) == VInt(Len(registry))

\* add_pipeline, had a registration replaced the entry with the same
\* identifier.
NexusManager_add_pipeline_replacing(registry, pipeline) ==
    IF \E i \in 1..Len(registry) :
            registry[i].pipeline_id = pipeline.pipeline_id
    THEN [i \in 1..Len(registry) |->
            IF registry[i].pipeline_id = pipeline.pipeline_id
            THEN pipeline ELSE registry[i]]
    ELSE Append(registry, pipeline)

\* add_pipeline: self.pipelines + [pipeline] (nexus_pipeline.py),
\* self.pipelines.append(pipeline) (temp.py)
NexusManager_add_pipeline(registry, pipeline) == Append(registry, pipeline)

\* add_stage, had it put the new stage first.
ProcessingPipeline_add_stage_first(self, stage) ==
    [self EXCEPT !.stages = <<stage>> \o @]

\* add_stage: self.stages + [stage] (nexus_pipeline.py),
\* self.stages.append(stage) (temp.py)
ProcessingPipeline_add_stage(self, stage) ==
    [self EXCEPT !.stages = Append(@, stage)]

----------------------------------------------------------------------------
(* The state machine.  The caller registers adapters, appends stages to    *)
(* registered pipelines and calls process, process_data and                *)
(* get_pipeline_count in any order, one call at a time (the program has    *)
(* one thread).  last holds the call just made and how it ended, until the *)
(* caller has taken the result.                                            *)

NoRun == [op |-> "none"]
Idle == [op |-> "idle"]

Init ==
    /\ variant \in Variants
    /\ pipelines = <<>>
    /\ last = Idle
    /\ added = 0
    /\ pinned = NoRun

\* manager.add_pipeline(JSONAdapter(id)), ...(CSVAdapter(id)), ...(StreamAdapter(id))
AddPipeline ==
    \E kind \in AdapterClasses, pipeline_id \in PipelineIds :
        /\ last = Idle
        /\ Len(pipelines) < MaxPipelines
        /\ pipelines' = NexusManager_add_pipeline(pipelines,
                                                  NewAdapter(kind, pipeline_id))
        /\ added' = added + 1
        /\ last' = [op |-> "add_pipeline", kind |-> kind,
                    pipeline_id |-> pipeline_id]
        /\ UNCHANGED <<variant, pinned>>

\* pipeline.add_stage(InputStage()), ... on a registered pipeline
AddStage ==
    \E i \in 1..Len(pipelines), stage \in StageClasses :
        /\ last = Idle
        /\ Len(pipelines[i].stages) < MaxStages
        /\ pipelines' = [pipelines EXCEPT
                            ![i] = ProcessingPipeline_add_stage(@, stage)]
        /\ last' = [op |-> "add_stage", target |-> i, stage |-> stage]
        /\ UNCHANGED <<variant, added, pinned>>

\* pipeline.process(data) on the i-th registered pipeline
ProcessCall(i, data, run) ==
    [op |-> "process", target |-> i, self |-> pipelines[i],
     data |-> data, printed |-> run.printed,
     outcome |-> run.outcome, calls |-> run.calls]

RunProcess(i, data) ==
    /\ last = Idle
    /\ last' = ProcessCall(i, data, Pipeline_process(variant, pipelines[i], data))
    /\ pipelines' = [pipelines EXCEPT ![i] = Pipeline_after_process(@)]
    /\ UNCHANGED <<variant, added>>

\* The registry once process_data has returned: the manager assigns nothing,
\* the pipeline it ran is as its process() left it.
Manager_after(registry, i) ==
    IF i = 0 THEN registry
    ELSE [registry EXCEPT ![i] = Pipeline_after_process(@)]

NexusManager_after_process_data(registry, pipeline_id) ==
    Manager_after(registry, FindPipeline(registry, pipeline_id, 1))

\* manager.process_data(pipeline_id, data)
ProcessDataCall(pipeline_id, data, run) ==
    [op |-> "process_data", pipeline_id |-> pipeline_id,
     target |-> run.target,
     self |-> IF run.target = 0 THEN NoRun ELSE pipelines[run.target],
     data |-> data, printed |-> run.printed,
     outcome |-> run.outcome, calls |-> run.calls]

RunProcessData(pipeline_id, data) ==
    /\ last = Idle
    /\ last' = ProcessDataCall(pipeline_id, data,
            NexusManager_process_data(variant, pipelines, pipeline_id, data))
    /\ pipelines' = NexusManager_after_process_data(pipelines, pipeline_id)
    /\ UNCHANGED <<variant, added>>

Process ==
    \E i \in 1..Len(pipelines), data \in Values :
        RunProcess(i, data) /\ UNCHANGED pinned

ProcessData ==
    \E pipeline_id \in PipelineIds, data \in Values :
        RunProcessData(pipeline_id, data) /\ UNCHANGED pinned

\* manager.get_pipeline_count()
GetPipelineCount ==
    /\ last = Idle
    /\ last' = [op |-> "get_pipeline_count",
                outcome |-> Return(NexusManager_get_pipeline_count(pipelines))]
    /\ UNCHANGED <<variant, pipelines, added, pinned>>

\* The caller has the result; the next call can be made.
TakeResult ==
    /\ last # Idle
    /\ last' = Idle
    /\ UNCHANGED <<variant, pipelines, added, pinned>>

Next ==
    \/ AddPipeline
    \/ Process
    \/ ProcessData
    \/ GetPipelineCount
    \/ TakeResult

\* Registration and dispatch: every pipeline keeps the three stages its
\* adapter constructed.
Spec == Init /\ [][Next]_vars

\* JSONAdapter("JSON_001") and one more adapter of any class and identifier,
\* registered.
InitTwo ==
    /\ variant \in Variants
    /\ \E kind \in AdapterClasses, pipeline_id \in PipelineIds :
            pipelines = <<NewAdapter("JSONAdapter", s_JSON_001),
                          NewAdapter(kind, pipeline_id)>>
    /\ last = Idle
    /\ added = 2
    /\ pinned = NoRun

\* pipeline.process(data), remembered for comparison with later calls
ProcessAndPin ==
    \E i \in 1..Len(pipelines), data \in Values :
        RunProcess(i, data) /\ pinned' = last'

NextPinned ==
    \/ Process
    \/ ProcessAndPin
    \/ ProcessData
    \/ GetPipelineCount
    \/ TakeResult

\* Calls on two registered adapters, one earlier execution remembered.
SpecPinned == InitTwo /\ [][NextPinned]_vars

\* One adapter of any class and identifier, registered.
InitOne ==
    /\ variant \in Variants
    /\ \E kind \in AdapterClasses, pipeline_id \in PipelineIds :
            pipelines = <<NewAdapter(kind, pipeline_id)>>
    /\ last = Idle
    /\ added = 1
    /\ pinned = NoRun

NextStages ==
    \/ AddStage
    \/ Process
    \/ ProcessData
    \/ GetPipelineCount
    \/ TakeResult

\* One registered pipeline that is given further stages.
SpecStages == InitOne /\ [][NextStages]_vars

\* The argument's object when stage.process(data) has returned, had
\* InputStage stored its "validation" mark in the mapping it was given.
Stage_argument_after_marked(stage, data) ==
    IF stage = "InputStage" /\ IsDict(data) /\ Len(data.v) > 0
    THEN VDict(Append(data.v, Item(VStr(s_validation), VBool(TRUE))))
    ELSE data

\* The argument's object when stage.process(data) has returned: the stages
\* read data (isinstance, len, in, [], get, keys, strip, upper) and put it
\* in new dict displays; none assigns to an item or calls a mutating method.
Stage_argument_after(stage, data) == data

\* stage.process(data) on a stage object of the caller's own
StageCall(stage, data, out) ==
    [op |-> "stage", stage |-> stage, data |-> data, outcome |-> out,
     after |-> Stage_argument_after(stage, data)]

CallStage ==
    \E stage \in StageClasses, data \in StageValues :
        /\ last = Idle
        /\ last' = StageCall(stage, data,
                             IF variant = "ex2"
                             THEN Stage_process(stage, data)
                             ELSE Temp_Stage_process(stage, data))
        /\ UNCHANGED <<variant, pipelines, added, pinned>>

NextDirect ==
    \/ CallStage
    \/ TakeResult

\* The stages called one at a time, outside any pipeline.
SpecDirect == Init /\ [][NextDirect]_vars

----------------------------------------------------------------------------
(* The claims.                                                             *)

\* The last call executed a pipeline.
IsRun == last.op \in {"process", "process_data"} /\ last.target # 0

\* The i-th stage call of the last execution returned a stage Error.
ReturnedError(i) ==
    ~last.calls[i].out.raised /\ IsErrorDict(last.calls[i].out.value)

\* C1: fail-fast. When a stage of an execution returns an Error (a mapping
\* with "error" and "stage"), no later stage of the pipeline is invoked: the
\* erroring stage call is the last one of the execution.
C1_FailFast ==
    IsRun =>
        \A i \in 1..Len(last.calls) : ReturnedError(i) => i = Len(last.calls)

\* C2: for an input that InputStage rejects, process and process_data return
\* exactly the Error mapping {"error": "Invalid data", "stage": "input"}.
C2_StageErrorIsResult ==
    (IsRun /\ variant = "ex2" /\ ~InputStage_validate_data(last.data)) =>
        last.outcome = Return(ErrorDict(s_Invalid_data, s_input))

\* "Processed text: {length} characters, content: '{s}'"
ProcessedText(s) ==
    VStr(s_Processed_text_ \o IntStr(Len(s.v)) \o <<" ">>
         \o s_characters_content_ \o s.v \o s_quote)

\* "Processed list: {count} items (first: {first}, last: {last})"
ProcessedList(l) ==
    VStr(s_Processed_list_ \o IntStr(Len(l.v)) \o <<" ">>
         \o s_items_first_ \o PyStr(l.v[1])
         \o s__last_ \o PyStr(l.v[Len(l.v)]) \o s_close)

\* C3: for a text or a list that InputStage accepts, the three-stage pipeline
\* returns one text: "Processed text: ..." with the length and the content,
\* "Processed list: ..." with the count, the first and the last element.
C3_TextAndListSummary ==
    (IsRun /\ variant = "ex2" /\ InputStage_validate_data(last.data)
           /\ Len(last.self.stages) = 3) =>
        /\ IsStr(last.data) => last.outcome = Return(ProcessedText(last.data))
        /\ IsList(last.data) => last.outcome = Return(ProcessedList(last.data))

\* "Processed number: {n} (doubled: {2n})"
ProcessedNumber(n) ==
    VStr(s_Processed_number_ \o IntStr(n) \o s__doubled_ \o IntStr(2 * n)
         \o s_close)

\* "Processed dict: {k} keys ({keys joined by ", "})"
ProcessedDict(m) ==
    VStr(s_Processed_dict_ \o IntStr(Len(m.v)) \o s__keys_
         \o Join(s_comma_, [i \in 1..Len(m.v) |-> PyStr(m.v[i].k)]) \o s_close)

\* C4: the three-stage pipeline returns "Processed number: n (doubled: 2n)"
\* for an integer n, and "Processed dict: k keys (keys)" for a non-empty
\* mapping with k keys, the keys in iteration order joined by ", ".
C4_NumberAndDictSummary ==
    (IsRun /\ variant = "ex2" /\ Len(last.self.stages) = 3) =>
        /\ last.data.t = "int" =>
                last.outcome = Return(ProcessedNumber(last.data.v))
        /\ (IsDict(last.data) /\ Len(last.data.v) > 0) =>
                last.outcome = Return(ProcessedDict(last.data))

\* 42 went through a three-stage pipeline and came out as
\* "Processed number: 42 (doubled: 84)".
C4_Witness ==
    /\ IsRun /\ variant = "ex2" /\ last.data = VInt(42)
    /\ last.outcome = Return(VStr(s_Processed_number_ \o <<"4", "2">>
                                  \o s__doubled_ \o <<"8", "4">> \o s_close))

\* The positions of the registered pipelines with this identifier.
Matches(pipeline_id) ==
    {i \in 1..Len(pipelines) : pipelines[i].pipeline_id = pipeline_id}

\* C5: process_data(id, x) runs the earliest-registered pipeline whose
\* pipeline_id is id, whatever else is registered before or after it, and
\* returns what that pipeline's process(x) prints and returns.
C5_FirstMatchWins ==
    (last.op = "process_data" /\ Matches(last.pipeline_id) # {}) =>
        \E i \in Matches(last.pipeline_id) :
            /\ \A j \in Matches(last.pipeline_id) : i <= j
            /\ last.target = i
            /\ last.printed =
                 Pipeline_process(variant, pipelines[i], last.data).printed
            /\ last.outcome =
                 Pipeline_process(variant, pipelines[i], last.data).outcome

\* Two adapters of different classes share an identifier, and a lookup of
\* that identifier ran the first of them.
C5_Witness ==
    /\ Len(pipelines) = 2
    /\ pipelines[1].pipeline_id = pipelines[2].pipeline_id
    /\ pipelines[1].kind # pipelines[2].kind
    /\ last.op = "process_data"
    /\ last.pipeline_id = pipelines[1].pipeline_id
    /\ last.target = 1

\* C6: when no registered pipeline has the identifier, process_data returns
\* the text "Error: Pipeline {pipeline_id} not found" (it does not raise),
\* invokes no stage, and leaves the registry as it was.
C6_NotFoundIsReturned ==
    [][(last'.op = "process_data" /\ Matches(last'.pipeline_id) = {}) =>
          /\ last'.outcome = Return(VStr(s_Error_Pipeline_
                                         \o last'.pipeline_id \o s__not_found))
          /\ last'.calls = <<>>
          /\ last'.printed = <<>>
          /\ last'.target = 0
          /\ pipelines' = pipelines]_vars

\* A lookup in a non-empty registry found no pipeline.
C6_Witness ==
    /\ last.op = "process_data"
    /\ last.target = 0
    /\ Len(pipelines) > 0
    /\ ~last.outcome.raised

\* C7: no call crashes. process and process_data return, for every value
\* and in both files; no exception reaches the caller.
C7_NoCallCrashes ==
    last.op \in {"process", "process_data"} => ~last.outcome.raised

\* C8: adapter equivalence. Two adapters that differ in class or identifier
\* return the same result for the same input.
C8_AdaptersAgree ==
    (IsRun /\ pinned # NoRun /\ last.self # pinned.self
           /\ last.data = pinned.data) =>
        last.outcome = pinned.outcome

\* Adapters of different classes and identifiers were given the same text and
\* returned the same thing.
C8_Witness ==
    /\ IsRun /\ pinned # NoRun
    /\ last.self.kind # pinned.self.kind
    /\ last.self.pipeline_id # pinned.self.pipeline_id
    /\ last.data = pinned.data
    /\ last.data = VStr(<<"a", "b">>)
    /\ last.outcome = pinned.outcome

\* C9: the registry is append-only and counted exactly. Every step keeps
\* the registered pipelines at their positions; process, process_data and
\* get_pipeline_count leave the registry unchanged; get_pipeline_count returns
\* the number of add_pipeline calls made so far.
C9_RegistryAppendOnly ==
    [][/\ Len(pipelines') >= Len(pipelines)
       /\ \A i \in 1..Len(pipelines) : pipelines'[i] = pipelines[i]
       /\ last'.op \in {"process", "process_data", "get_pipeline_count"} =>
              pipelines' = pipelines
       /\ last'.op = "get_pipeline_count" =>
              last'.outcome = Return(VInt(added'))
       /\ Len(pipelines') = added']_vars

\* get_pipeline_count returned 2 after two registrations under one identifier.
C9_Witness ==
    /\ last.op = "get_pipeline_count"
    /\ last.outcome = Return(VInt(2))
    /\ added = 2
    /\ pipelines[1].pipeline_id = pipelines[2].pipeline_id

IsStageCall(stage) ==
    last.op = "stage" /\ last.stage = stage /\ variant = "ex2"

\* Absent, or a text, sequence or mapping of length zero.
AbsentOrEmpty(x) ==
    \/ x = VNone
    \/ (IsStr(x) \/ IsList(x) \/ IsDict(x)) /\ Len(x.v) = 0

\* {"input": input, "validation": true, "stage": "input"}
Wrapper(input) ==
    VDict(<<Item(VStr(s_input), input),
            Item(VStr(s_validation), VBool(TRUE)),
            Item(VStr(s_stage), VStr(s_input))>>)

\* C11: InputStage validation is exact. InputStage.process(input) returns
\* the Error {"error": "Invalid data", "stage": "input"} if and only if input
\* is absent or a text, sequence or mapping of length zero; for every other
\* input, whitespace-only text included, it returns the wrapper
\* {"input": input, "validation": true, "stage": "input"}.
C11_ValidationExact ==
    IsStageCall("InputStage") =>
        last.outcome = Return(IF AbsentOrEmpty(last.data)
                              THEN ErrorDict(s_Invalid_data, s_input)
                              ELSE Wrapper(last.data))

\* The value TransformStage enriches: the "input" item of a mapping that has
\* one, else the argument itself.
Extracted(data) ==
    IF IsDict(data) /\ HasKey(data, VStr(s_input))
    THEN GetKey(data, VStr(s_input))
    ELSE data

\* The enrichment table: by the shape of the extracted value.
Enrichment(x) ==
    CASE IsStr(x) ->
            VDict(<<Item(VStr(s_original), x),
                    Item(VStr(s_uppercase), VStr(Upper(x.v))),
                    Item(VStr(s_length), VInt(Len(x.v))),
                    Item(VStr(s_type), VStr(s_string))>>)
      [] x.t \in {"int", "float"} ->
            VDict(<<Item(VStr(s_original), x),
                    Item(VStr(s_doubled), NumMul(x, VInt(2))),
                    Item(VStr(s_squared), NumMul(x, x)),
                    Item(VStr(s_type), VStr(s_numeric))>>)
      [] IsList(x) ->
            VDict(<<Item(VStr(s_original), x),
                    Item(VStr(s_count), VInt(Len(x.v))),
                    Item(VStr(s_first),
                         IF Len(x.v) = 0 THEN VNone ELSE x.v[1]),
                    Item(VStr(s_last),
                         IF Len(x.v) = 0 THEN VNone ELSE x.v[Len(x.v)]),
                    Item(VStr(s_type), VStr(s_list))>>)
      [] IsDict(x) ->
            VDict(<<Item(VStr(s_original), x),
                    Item(VStr(s_keys),
                         VList([i \in 1..Len(x.v) |-> x.v[i].k])),
                    Item(VStr(s_key_count), VInt(Len(x.v))),
                    Item(VStr(s_type), VStr(s_dict))>>)
      [] OTHER -> x

\* {"input": data, "transformed": ..., "enriched": true, "stage": "transform"}
Enriched(data, transformed) ==
    VDict(<<Item(VStr(s_input), data),
            Item(VStr(s_transformed), transformed),
            Item(VStr(s_enriched), VBool(TRUE)),
            Item(VStr(s_stage), VStr(s_transform))>>)

\* C12: type dispatch of TransformStage. For every extracted value the
\* enrichment follows the table: text, integer or float, sequence and mapping
\* get their fields and their tag "string", "numeric", "list", "dict" (first
\* and last absent for the empty sequence, zero keys for the empty mapping);
\* any other value, a boolean for one, is returned unchanged with no tag and
\* is not classified as numeric.
C12_TypeDispatch ==
    (IsStageCall("TransformStage") /\ Extracted(last.data) # VNone) =>
        last.outcome =
            Return(Enriched(last.data, Enrichment(Extracted(last.data))))

ExtractedForOutput(data) ==
    IF IsDict(data) /\ HasKey(data, VStr(s_transformed))
    THEN GetKey(data, VStr(s_transformed))
    ELSE data

\* C14: OutputStage treats absent and empty extracted data alike. When the
\* extracted data is absent or an empty mapping, sequence or text,
\* OutputStage.process returns "Error: No data to format".
C14_EmptyIsNoData ==
    (IsStageCall("OutputStage") /\ AbsentOrEmpty(ExtractedForOutput(last.data)))
        => last.outcome = Return(VStr(s_Error_No_data_to_format))

\* The stage calls of an execution follow the stage sequence: the k-th call
\* is on the k-th stage and is given the data, then the previous stage's
\* output; only a stage that raises ends the execution early.
InStageOrder(calls, stages, data) ==
    /\ Len(calls) <= Len(stages)
    /\ \A k \in 1..Len(calls) :
        /\ calls[k].stage = stages[k]
        /\ k = 1 => calls[k].arg = data
        /\ k > 1 => /\ ~calls[k - 1].out.raised
                    /\ calls[k].arg = calls[k - 1].out.value
    /\ Len(calls) < Len(stages) => calls[Len(calls)].out.raised

\* C15: stage order is insertion order and only append changes it. Every
\* adapter starts with InputStage, TransformStage, OutputStage; add_stage
\* puts its stage last; no other call changes a stage sequence or a
\* pipeline_id; an execution invokes the stages in sequence order, each on
\* the previous stage's output.
C15_StageOrder ==
    [][\A i \in 1..Len(pipelines') :
        /\ pipelines'[i].pipeline_id = pipelines[i].pipeline_id
        /\ SubSeq(pipelines'[i].stages, 1, 3) =
                <<"InputStage", "TransformStage", "OutputStage">>
        /\ pipelines'[i].stages =
                IF last'.op = "add_stage" /\ last'.target = i
                THEN Append(pipelines[i].stages, last'.stage)
                ELSE pipelines[i].stages
        /\ (last'.op \in {"process", "process_data"} /\ last'.target = i) =>
                InStageOrder(last'.calls, pipelines[i].stages, last'.data)
      ]_vars

\* A pipeline given InputStage as its fourth stage ran all four, the fourth
\* on what OutputStage returned.
C15_Witness ==
    /\ IsRun /\ variant = "ex2"
    /\ last.self.stages =
            <<"InputStage", "TransformStage", "OutputStage", "InputStage">>
    /\ Len(last.calls) = 4
    /\ last.calls[4].stage = "InputStage"
    /\ last.calls[4].arg = last.calls[3].out.value
    /\ last.calls[4].out = last.outcome

\* C16: wrap and unwrap round trip. For every value v that InputStage
\* accepts, TransformStage.extract_data(InputStage.process(v)) is v, also
\* when v is a mapping with the key "input", "transformed" or "type"; in
\* the three-stage pipeline the enrichment is made of v itself: its
\* "original" is v, and a mapping v is tagged "dict".
C16_WrapUnwrap ==
    (IsRun /\ variant = "ex2" /\ Len(last.self.stages) = 3
           /\ InputStage_validate_data(last.data)) =>
        /\ last.calls[1].out = Return(Wrapper(last.data))
        /\ TransformStage_extract_data(last.calls[1].out.value) = last.data
        /\ GetKey(GetKey(last.calls[2].out.value, VStr(s_transformed)),
                  VStr(s_original)) = last.data
        /\ IsDict(last.data) =>
              GetKey(GetKey(last.calls[2].out.value, VStr(s_transformed)),
                     VStr(s_type)) = VStr(s_dict)

\* {"input": 7} went through a three-stage pipeline and was enriched as a
\* mapping with one key.
C16_Witness ==
    /\ IsRun /\ variant = "ex2"
    /\ last.data = VDict(<<Item(VStr(s_input), VInt(7))>>)
    /\ GetKey(last.calls[2].out.value, VStr(s_transformed)) =
            Enrichment(last.data)
    /\ last.outcome = Return(ProcessedDict(last.data))
====
